---- MODULE Spec2Model ----
(***************************************************************************)
(* State-machine model of fill_ts_repository (utils/utils.py): one fill    *)
(* pass streams the batches of a loader through the encoder, deposits the  *)
(* embeddings and label tags in one or two representation repositories     *)
(* and, in an augmented pass, accumulates the inputs for the auxiliary     *)
(* (contrastive) dataset that is concatenated and persisted at the end.    *)
(***************************************************************************)
EXTENDS Integers, Sequences, FiniteSets, TLC

\* ------------------------------------------------------------------ bounds
MaxSamples == 3
MaxBatchSize == 2
MaxPasses == 2
MaxCadenceBatches == 101
MaxLabels == 6
MaxValues == 4
MaxSequences == 2
MaxHorizon == 4

\* ------------------------------------------------------- program constants
WeakTag == 2
StrongTag == 4
ResizeFactor == 3
ProgressEvery == 100
ReclaimEvery == 50

VARIABLES
    dataset,            \* the samples the loader of every pass iterates over
    ts_repository,      \* the primary repository object
    ts_repository_aug,  \* the secondary repository object
    loader,             \* this pass's loader: a sequence of batches
    batch_size,         \* the loader's batch size
    real_aug,           \* parameter real_aug of this pass
    has_aug,            \* ts_repository_aug != None in this pass
    i,                  \* zero-based index of the batch being processed
    pc,                 \* position of the pass in the code
    err,                \* which error propagated out of the pass
    con_data,           \* accumulation buffer of inputs (list of tensors)
    con_target,         \* accumulation buffer of label tags (list of tensors)
    contrastive_dataset,\* artifact persisted at p['contrastive_dataset']
    prev,               \* outcome of the preceding pass when it completed
    passes,             \* number of passes started so far
    device,             \* the module's compute device: "cuda" or "cpu"
    locals,             \* the pass's local tensor variables: name, batch, arena
    con_arena,          \* arenas of the (input, tag) tensors appended to the buffers
    update_arena,       \* arenas of the tensors this pass handed to repository updates
    progress_lines,     \* batch indices of the progress lines this pass printed
    empty_cache_calls   \* the torch.cuda.empty_cache() calls of this pass

\* convert_to_msl_format.py and predictive_fault_detection.py
VARIABLES
    labels,               \* argument of find_anomaly_sequences
    anomalies,            \* its result
    fas_called,           \* find_anomaly_sequences has returned
    sequences,            \* anomaly_sequences of one row of labeled_anomalies.csv
    num_values,           \* num_values of that row
    prediction_horizon,   \* argument of create_predictive_labels
    predictive_sequences, \* the row's shifted sequences
    cpl_called            \* create_predictive_labels has processed the row

fill_vars == <<dataset, ts_repository, ts_repository_aug, loader, batch_size, real_aug,
               has_aug, i, pc, err, con_data, con_target, contrastive_dataset, prev,
               passes, device, locals, con_arena, update_arena, progress_lines,
               empty_cache_calls>>

label_vars == <<labels, anomalies, fas_called, sequences, num_values, prediction_horizon,
                predictive_sequences, cpl_called>>

vars == <<fill_vars, label_vars>>

\* No label conversion is running.
LabelsIdle ==
    /\ labels = <<>>
    /\ anomalies = <<>>
    /\ fas_called = FALSE
    /\ sequences = <<>>
    /\ num_values = 0
    /\ prediction_horizon = 0
    /\ predictive_sequences = <<>>
    /\ cpl_called = FALSE

\* ----------------------------------------------------------------- inputs
Min(a, b) == IF a <= b THEN a ELSE b

\* The k-th sample of a dataset: its original window, its true target (0 normal,
\* 1 anomaly) and its weak and strong augmented variants, all distinct tensors.
Sample(k) ==
    [ts_org |-> 10 * k, target |-> k % 2, ts_w_augment |-> 10 * k + 1,
     ts_ss_augment |-> 10 * k + 2]

Datasets ==
    {[k \in 1..n |-> Sample(k)] : n \in 0..MaxSamples}

\* A loader over dataset d with batch size bs, no shuffling, last batch kept.
Loader(d, bs) ==
    [k \in 1..((Len(d) + bs - 1) \div bs) |->
        SubSeq(d, (k - 1) * bs + 1, Min(k * bs, Len(d)))]

\* Base capacities a caller constructs a repository with for dataset d.
Capacities(d) ==
    {n \in {Len(d) - 1, Len(d), 2 * Len(d)} : n >= 0}

\* the concatenation of a list of sequences, in list order
RECURSIVE Flatten(_)
Flatten(list) ==
    IF list = <<>> THEN <<>>
    ELSE IF Len(list) = 1 THEN list[1]
    ELSE LET half == Len(list) \div 2
         IN  Flatten(SubSeq(list, 1, half)) \o Flatten(SubSeq(list, half + 1, Len(list)))

TotalSamples(l) == Len(Flatten(l))

\* ------------------------------------------------------------ repository
Reset(r) ==
    [r EXCEPT !.entries = <<>>]

Resize(r, k) ==
    [r EXCEPT !.mult = k]

Capacity(r) == r.n * r.mult

CanUpdate(r, features) ==
    Len(r.entries) + Len(features) <= Capacity(r)

Update(r, features, targets) ==
    [r EXCEPT !.entries = @ \o [k \in 1..Len(features) |-> <<features[k], targets[k]>>]]

\* ---------------------------------------------------------------- encoder
Encoder(x) == 2 * x + 1

Model(ts) ==
    [k \in 1..Len(ts) |-> Encoder(ts[k])]

\* ------------------------------------------------------ batch field access
Field(batch, name) ==
    [k \in 1..Len(batch) |-> batch[k][name]]

OrgTargets(batch) ==
    Field(batch, "target")

WeakTargetsStrong(ts_w_augment) ==
    [k \in 1..Len(ts_w_augment) |-> StrongTag]

WeakTargets(ts_w_augment) ==
    [k \in 1..Len(ts_w_augment) |-> WeakTag]

StrongTargets(ts_ss_augment) ==
    [k \in 1..Len(ts_ss_augment) |-> StrongTag]

\* ------------------------------------------------------ auxiliary dataset
NoDataset ==
    [exists |-> FALSE, data |-> <<>>, target |-> <<>>, pass |-> 0]

SaveAugmentedDataset(data, target, pass) ==
    [exists |-> TRUE, data |-> data, target |-> target, pass |-> pass]

CatFirst(list) == Head(list)

AccumulateFront(buffer, tensor) ==
    <<tensor>> \o buffer

\* torch.cat raises on an empty list of tensors
CatRaises(list) == list = <<>>

Cat(list) == Flatten(list)

\* -------------------------------------------------- steps of a fill pass
NoError == [kind |-> "none", at |-> "none"]

NoPrev ==
    [valid |-> FALSE, batch_size |-> 0, real_aug |-> FALSE, has_aug |-> FALSE,
     primary |-> <<>>, secondary |-> <<>>]

StartPrimaryResizeTwo(r, aug) ==
    IF aug THEN Resize(Reset(r), 2) ELSE Reset(r)

StartPrimaryNoReset(r, aug) ==
    IF aug THEN Resize(r, ResizeFactor) ELSE r

\* ts_repository.reset(); if real_aug: ts_repository.resize(3)
StartPrimary(r, aug) ==
    IF aug THEN Resize(Reset(r), ResizeFactor) ELSE Reset(r)

StartSecondaryNoReset(r, present) ==
    r

\* if ts_repository_aug != None: ts_repository_aug.reset()
StartSecondary(r, present) ==
    IF present THEN Reset(r) ELSE r

UpdateBothAtomic(primary, secondary, present, features, targets) ==
    IF ~CanUpdate(primary, features)
    THEN [primary |-> primary, secondary |-> secondary, err |-> "capacity_primary"]
    ELSE IF present /\ ~CanUpdate(secondary, features)
    THEN [primary |-> primary, secondary |-> secondary, err |-> "capacity_secondary"]
    ELSE [primary |-> Update(primary, features, targets),
          secondary |-> IF present THEN Update(secondary, features, targets)
                        ELSE secondary,
          err |-> "none"]

UpdateNoFanOut(primary, secondary, present, features, targets) ==
    IF ~CanUpdate(primary, features)
    THEN [primary |-> primary, secondary |-> secondary, err |-> "capacity_primary"]
    ELSE [primary |-> Update(primary, features, targets), secondary |-> secondary,
          err |-> "none"]

\* ts_repository.update(...); if ts_repository_aug != None: ts_repository_aug.update(...)
\* An update that exceeds the capacity raises before it writes anything.
UpdateBoth(primary, secondary, present, features, targets) ==
    IF ~CanUpdate(primary, features)
    THEN [primary |-> primary, secondary |-> secondary, err |-> "capacity_primary"]
    ELSE IF present /\ ~CanUpdate(secondary, features)
    THEN [primary |-> Update(primary, features, targets), secondary |-> secondary,
          err |-> "capacity_secondary"]
    ELSE [primary |-> Update(primary, features, targets),
          secondary |-> IF present THEN Update(secondary, features, targets)
                        ELSE secondary,
          err |-> "none"]

UpdateWeakFanOut(primary, secondary, present, features, targets) ==
    IF ~CanUpdate(primary, features)
    THEN [primary |-> primary, secondary |-> secondary, err |-> "capacity_primary"]
    ELSE IF present /\ ~CanUpdate(secondary, features)
    THEN [primary |-> Update(primary, features, targets), secondary |-> secondary,
          err |-> "capacity_secondary"]
    ELSE [primary |-> Update(primary, features, targets),
          secondary |-> IF present THEN Update(secondary, features, targets)
                        ELSE secondary,
          err |-> "none"]

\* the weak branch: ts_repository.update(...) alone
UpdateWeak(primary, secondary, present, features, targets) ==
    IF ~CanUpdate(primary, features)
    THEN [primary |-> primary, secondary |-> secondary, err |-> "capacity_primary"]
    ELSE [primary |-> Update(primary, features, targets), secondary |-> secondary,
          err |-> "none"]

\* ---------------------------------------------------- device and host memory
Devices == {"cuda", "cpu"}

\* x.to(device): the tensor the local is bound to lives on the compute device
ToDevice(arena) == device

CpuStays(arena) == arena

\* x.cpu(): a host-resident tensor
Cpu(arena) == "cpu"

\* binding local variables to tensors of batch b; the tensors they named before
\* lose their last reference
Bind(ls, names, b, arena) ==
    {l \in ls : l.name \notin names}
    \cup {[name |-> nm, batch |-> b, arena |-> arena] : nm \in names}

\* del of local variables
Del(ls, names) ==
    {l \in ls : l.name \notin names}

ArenaOf(ls, name) ==
    (CHOOSE l \in ls : l.name = name).arena

\* i % 100 == 0
ProgressDue(n) == n % ProgressEvery = 0

ReclaimDueAsProgress(n) == n % ProgressEvery = 0

\* i % 50 == 0
ReclaimDue(n) == n % ReclaimEvery = 0

\* torch.cuda.empty_cache(): touches the allocator's cache alone
EmptyCache(calls, n, where) ==
    Append(calls, [i |-> n, at |-> where])

\* con_data.append(x.cpu())
Accumulate(buffer, tensor) ==
    Append(buffer, tensor)

\* where the loop goes once n batches are processed
AfterBatch(n) ==
    IF n < Len(loader) THEN "org" ELSE "finish"

Raise(kind) ==
    /\ pc' = "error"
    /\ err' = [kind |-> kind, at |-> pc]

Init ==
    /\ dataset \in Datasets
    /\ \E n \in Capacities(dataset) :
          ts_repository = [n |-> n, mult |-> 1, entries |-> <<>>]
    /\ \E n \in Capacities(dataset) :
          ts_repository_aug = [n |-> n, mult |-> 1, entries |-> <<>>]
    /\ loader = <<>>
    /\ batch_size = 1
    /\ real_aug = FALSE
    /\ has_aug = FALSE
    /\ i = 0
    /\ pc = "idle"
    /\ err = NoError
    /\ con_data = <<>>
    /\ con_target = <<>>
    /\ contrastive_dataset = NoDataset
    /\ prev = NoPrev
    /\ passes = 0
    /\ device \in Devices
    /\ locals = {}
    /\ con_arena = <<>>
    /\ update_arena = {}
    /\ progress_lines = <<>>
    /\ empty_cache_calls = <<>>
    /\ LabelsIdle

\* A call fill_ts_repository(p, loader, model, ts_repository, real_aug,
\* ts_repository_aug): everything before the loop.
StartPass(bs, aug, present) ==
    /\ pc \in {"idle", "done", "error"}
    /\ passes < MaxPasses
    /\ passes' = passes + 1
    /\ prev' = IF pc = "done"
               THEN [valid |-> TRUE, batch_size |-> batch_size, real_aug |-> real_aug,
                     has_aug |-> has_aug, primary |-> ts_repository.entries,
                     secondary |-> ts_repository_aug.entries]
               ELSE NoPrev
    /\ loader' = Loader(dataset, bs)
    /\ batch_size' = bs
    /\ real_aug' = aug
    /\ has_aug' = present
    /\ ts_repository' = StartPrimary(ts_repository, aug)
    /\ ts_repository_aug' = StartSecondary(ts_repository_aug, present)
    /\ con_data' = <<>>
    /\ con_target' = <<>>
    /\ i' = 0
    /\ err' = NoError
    /\ pc' = IF Len(loader') > 0 THEN "org" ELSE "finish"
    /\ locals' = {}
    /\ con_arena' = <<>>
    /\ update_arena' = {}
    /\ progress_lines' = <<>>
    /\ empty_cache_calls' = <<>>
    /\ UNCHANGED label_vars
    /\ UNCHANGED <<dataset, device, contrastive_dataset>>

\* Batch i, original samples: field lookup and transfer to the device,
\* encoder, repository updates with host copies.
ProcessOriginal(fieldsOk, encoderOk) ==
    /\ pc = "org"
    /\ LET batch == loader[i + 1]
           ts_org == Field(batch, "ts_org")
           targets == OrgTargets(batch)
           output == Model(ts_org)
           u == UpdateBoth(ts_repository, ts_repository_aug, has_aug, output, targets)
           fetched == Bind(locals, {"ts_org", "targets"}, i, ToDevice("cpu"))
           encoded == Bind(fetched, {"output"}, i, ArenaOf(fetched, "ts_org"))
       IN  IF ~fieldsOk
           THEN /\ Raise("field")
                /\ UNCHANGED <<ts_repository, ts_repository_aug, locals, update_arena>>
           ELSE IF ~encoderOk
           THEN /\ Raise("encoder")
                /\ locals' = fetched
                /\ UNCHANGED <<ts_repository, ts_repository_aug, update_arena>>
           ELSE /\ ts_repository' = u.primary
                /\ ts_repository_aug' = u.secondary
                /\ locals' = encoded
                /\ update_arena' = update_arena \cup
                      {Cpu(ArenaOf(encoded, "output")), Cpu(ArenaOf(encoded, "targets"))}
                /\ IF u.err # "none"
                   THEN Raise(u.err)
                   ELSE /\ pc' = "progress"
                        /\ UNCHANGED err
    /\ UNCHANGED label_vars
    /\ UNCHANGED <<dataset, device, loader, batch_size, real_aug, has_aug, i, con_data,
                   con_target, con_arena, contrastive_dataset, prev, passes,
                   progress_lines, empty_cache_calls>>

\* Batch i: the progress line and the cache release every ProgressEvery batches;
\* a pass without augmentation then moves to the next batch.
Progress ==
    /\ pc = "progress"
    /\ IF ProgressDue(i)
       THEN /\ progress_lines' = Append(progress_lines, i)
            /\ empty_cache_calls' = EmptyCache(empty_cache_calls, i, "progress")
       ELSE UNCHANGED <<progress_lines, empty_cache_calls>>
    /\ IF real_aug
       THEN /\ pc' = "weak"
            /\ UNCHANGED i
       ELSE /\ i' = i + 1
            /\ pc' = AfterBatch(i + 1)
    /\ UNCHANGED label_vars
    /\ UNCHANGED <<dataset, device, ts_repository, ts_repository_aug, loader, batch_size,
                   real_aug, has_aug, err, con_data, con_target, con_arena, locals,
                   update_arena, contrastive_dataset, prev, passes>>

\* Batch i, augmented pass: accumulation of the originals, then the
\* weak-augmented variant.
ProcessWeak(fieldsOk, encoderOk) ==
    /\ pc = "weak"
    /\ LET batch == loader[i + 1]
           ts_org == Field(batch, "ts_org")
           org_targets == OrgTargets(batch)
           ts_w_augment == Field(batch, "ts_w_augment")
           targets == WeakTargets(ts_w_augment)
           output == Model(ts_w_augment)
           u == UpdateWeak(ts_repository, ts_repository_aug, has_aug, output, targets)
           org_data == Accumulate(con_data, ts_org)
           org_target == Accumulate(con_target, org_targets)
           org_arena == Append(con_arena, <<Cpu(ArenaOf(locals, "ts_org")),
                                            Cpu(ArenaOf(locals, "targets"))>>)
           fetched == Bind(locals, {"ts_w_augment", "targets"}, i, ToDevice("cpu"))
           encoded == Bind(fetched, {"output"}, i, ArenaOf(fetched, "ts_w_augment"))
       IN  IF ~fieldsOk
           THEN /\ Raise("field")
                /\ con_data' = org_data
                /\ con_target' = org_target
                /\ con_arena' = org_arena
                /\ UNCHANGED <<ts_repository, ts_repository_aug, locals, update_arena>>
           ELSE IF ~encoderOk
           THEN /\ Raise("encoder")
                /\ con_data' = org_data
                /\ con_target' = org_target
                /\ con_arena' = org_arena
                /\ locals' = fetched
                /\ UNCHANGED <<ts_repository, ts_repository_aug, update_arena>>
           ELSE /\ ts_repository' = u.primary
                /\ ts_repository_aug' = u.secondary
                /\ locals' = encoded
                /\ update_arena' = update_arena \cup
                      {Cpu(ArenaOf(encoded, "output")), Cpu(ArenaOf(encoded, "targets"))}
                /\ IF u.err # "none"
                   THEN /\ Raise(u.err)
                        /\ con_data' = org_data
                        /\ con_target' = org_target
                        /\ con_arena' = org_arena
                   ELSE /\ con_data' = Accumulate(org_data, ts_w_augment)
                        /\ con_target' = Accumulate(org_target, targets)
                        /\ con_arena' =
                              Append(org_arena, <<Cpu(ArenaOf(encoded, "ts_w_augment")),
                                                  Cpu(ArenaOf(encoded, "targets"))>>)
                        /\ pc' = "strong"
                        /\ UNCHANGED err
    /\ UNCHANGED label_vars
    /\ UNCHANGED <<dataset, device, loader, batch_size, real_aug, has_aug, i,
                   contrastive_dataset, prev, passes, progress_lines, empty_cache_calls>>

\* Batch i, strong-augmented variant.
ProcessStrong(fieldsOk, encoderOk) ==
    /\ pc = "strong"
    /\ LET batch == loader[i + 1]
           ts_ss_augment == Field(batch, "ts_ss_augment")
           targets == StrongTargets(ts_ss_augment)
           output == Model(ts_ss_augment)
           u == UpdateBoth(ts_repository, ts_repository_aug, has_aug, output, targets)
           fetched == Bind(locals, {"ts_ss_augment", "targets"}, i, ToDevice("cpu"))
           encoded == Bind(fetched, {"output"}, i, ArenaOf(fetched, "ts_ss_augment"))
       IN  IF ~fieldsOk
           THEN /\ Raise("field")
                /\ UNCHANGED <<ts_repository, ts_repository_aug, con_data, con_target,
                               con_arena, locals, update_arena>>
           ELSE IF ~encoderOk
           THEN /\ Raise("encoder")
                /\ locals' = fetched
                /\ UNCHANGED <<ts_repository, ts_repository_aug, con_data, con_target,
                               con_arena, update_arena>>
           ELSE /\ ts_repository' = u.primary
                /\ ts_repository_aug' = u.secondary
                /\ locals' = encoded
                /\ update_arena' = update_arena \cup
                      {Cpu(ArenaOf(encoded, "output")), Cpu(ArenaOf(encoded, "targets"))}
                /\ IF u.err # "none"
                   THEN /\ Raise(u.err)
                        /\ UNCHANGED <<con_data, con_target, con_arena>>
                   ELSE /\ con_data' = Accumulate(con_data, ts_ss_augment)
                        /\ con_target' = Accumulate(con_target, targets)
                        /\ con_arena' =
                              Append(con_arena, <<Cpu(ArenaOf(encoded, "ts_ss_augment")),
                                                  Cpu(ArenaOf(encoded, "targets"))>>)
                        /\ pc' = "reclaim"
                        /\ UNCHANGED err
    /\ UNCHANGED label_vars
    /\ UNCHANGED <<dataset, device, loader, batch_size, real_aug, has_aug, i,
                   contrastive_dataset, prev, passes, progress_lines, empty_cache_calls>>

\* Batch i, augmented pass: every ReclaimEvery batches the cache release and the
\* deletion of this batch's device tensors; the loop then moves to the next batch.
Reclaim ==
    /\ pc = "reclaim"
    /\ IF ReclaimDue(i)
       THEN /\ empty_cache_calls' = EmptyCache(empty_cache_calls, i, "interval")
            /\ locals' = Del(locals, {"ts_org", "ts_w_augment", "ts_ss_augment", "output"})
       ELSE UNCHANGED <<empty_cache_calls, locals>>
    /\ i' = i + 1
    /\ pc' = AfterBatch(i + 1)
    /\ UNCHANGED label_vars
    /\ UNCHANGED <<dataset, device, ts_repository, ts_repository_aug, loader, batch_size,
                   real_aug, has_aug, err, con_data, con_target, con_arena, update_arena,
                   contrastive_dataset, prev, passes, progress_lines>>

\* After the loop: in an augmented pass concatenate the buffers, build the
\* auxiliary dataset and persist it; the pass then returns.
Finish ==
    /\ pc = "finish"
    /\ IF ~real_aug
       THEN /\ pc' = "done"
            /\ locals' = {}
            /\ UNCHANGED <<err, con_data, con_target, con_arena, contrastive_dataset,
                           empty_cache_calls>>
       ELSE IF CatRaises(con_data) \/ CatRaises(con_target)
       THEN /\ Raise("cat")
            /\ UNCHANGED <<con_data, con_target, con_arena, contrastive_dataset, locals,
                           empty_cache_calls>>
       ELSE /\ contrastive_dataset' =
                   SaveAugmentedDataset(Cat(con_data), Cat(con_target), passes)
            /\ con_data' = <<>>
            /\ con_target' = <<>>
            /\ con_arena' = <<>>
            /\ empty_cache_calls' =
                   EmptyCache(EmptyCache(empty_cache_calls, i, "finish"), i, "finish")
            /\ locals' = {}
            /\ pc' = "done"
            /\ UNCHANGED err
    /\ UNCHANGED label_vars
    /\ UNCHANGED <<dataset, device, ts_repository, ts_repository_aug, loader, batch_size,
                   real_aug, has_aug, i, update_arena, prev, passes, progress_lines>>

Next ==
    \/ \E bs \in 1..MaxBatchSize, aug \in BOOLEAN, present \in BOOLEAN :
          StartPass(bs, aug, present)
    \/ \E fieldsOk \in BOOLEAN, encoderOk \in BOOLEAN : ProcessOriginal(fieldsOk, encoderOk)
    \/ Progress
    \/ \E fieldsOk \in BOOLEAN, encoderOk \in BOOLEAN : ProcessWeak(fieldsOk, encoderOk)
    \/ \E fieldsOk \in BOOLEAN, encoderOk \in BOOLEAN : ProcessStrong(fieldsOk, encoderOk)
    \/ Reclaim
    \/ Finish

Spec == Init /\ [][Next]_vars

\* ======================================================================
\* Properties of a fill pass
\* ======================================================================
\* The samples of a loader in arrival order.
Arrived(l) == Flatten(l)

NumSamples == TotalSamples(loader)

SumSizes(l, j) == Len(Flatten(SubSeq(l, 1, j)))

OrgEntry(s) == <<Encoder(s.ts_org), s.target>>
WeakEntry(s) == <<Encoder(s.ts_w_augment), 2>>
StrongEntry(s) == <<Encoder(s.ts_ss_augment), 4>>

OrgEntries(b) == [k \in 1..Len(b) |-> OrgEntry(b[k])]
WeakEntries(b) == [k \in 1..Len(b) |-> WeakEntry(b[k])]
StrongEntries(b) == [k \in 1..Len(b) |-> StrongEntry(b[k])]

\* What a pass over batches l deposits in the primary / secondary repository.
PrimaryFill(l, aug) ==
    Flatten([j \in 1..Len(l) |->
                OrgEntries(l[j])
                \o (IF aug THEN WeakEntries(l[j]) \o StrongEntries(l[j]) ELSE <<>>)])

SecondaryFill(l, aug) ==
    Flatten([j \in 1..Len(l) |->
                OrgEntries(l[j]) \o (IF aug THEN StrongEntries(l[j]) ELSE <<>>)])

Count(seq, e) == Cardinality({k \in DOMAIN seq : seq[k] = e})

Position(seq, e) == CHOOSE k \in DOMAIN seq : seq[k] = e

\* This pass persisted no auxiliary dataset artifact.
NothingPersisted ==
    ~contrastive_dataset.exists \/ contrastive_dataset.pass < passes

\* C1: after a completed pass with real_aug=False the primary repository holds
\* exactly one entry per loader sample, and the k-th entry is (encoder output,
\* true target) of the k-th sample in arrival order, whatever it held before.
C1_PlainFill ==
    (pc = "done" /\ ~real_aug) =>
        /\ Len(ts_repository.entries) = NumSamples
        /\ \A k \in 1..NumSamples :
              ts_repository.entries[k] =
                  <<Encoder(Arrived(loader)[k].ts_org), Arrived(loader)[k].target>>

C1_Witness ==
    /\ pc = "done" /\ ~real_aug
    /\ Len(loader) = 2 /\ NumSamples = 3
    /\ prev.valid /\ prev.real_aug /\ Len(prev.primary) = 9

\* C2: after a completed pass with real_aug=True the primary repository holds
\* exactly 3 times the original samples; batch j of size b occupies 3b consecutive
\* slots from offset 3 * (samples of the batches before it): b entries with the
\* true targets, then b entries labelled 2, then b entries labelled 4.
C2_AugmentedFill ==
    (pc = "done" /\ real_aug) =>
        /\ Len(ts_repository.entries) = 3 * NumSamples
        /\ \A j \in 1..Len(loader) :
              LET b == Len(loader[j])
                  off == 3 * SumSizes(loader, j - 1)
              IN  \A k \in 1..b :
                     /\ ts_repository.entries[off + k] =
                           <<Encoder(loader[j][k].ts_org), loader[j][k].target>>
                     /\ ts_repository.entries[off + b + k] =
                           <<Encoder(loader[j][k].ts_w_augment), 2>>
                     /\ ts_repository.entries[off + 2 * b + k] =
                           <<Encoder(loader[j][k].ts_ss_augment), 4>>

C2_Witness ==
    /\ pc = "done" /\ real_aug
    /\ Len(loader) = 2 /\ Len(loader[1]) = 2
    /\ Len(ts_repository.entries) = 9

\* Every sample has exactly one entry E(sample) in seq, in arrival order.
OnePerSample(seq, E(_)) ==
    /\ \A k \in 1..NumSamples : Count(seq, E(Arrived(loader)[k])) = 1
    /\ \A a, b \in 1..NumSamples :
          a < b => Position(seq, E(Arrived(loader)[a])) < Position(seq, E(Arrived(loader)[b]))

NonePerSample(seq, E(_)) ==
    \A k \in 1..NumSamples : Count(seq, E(Arrived(loader)[k])) = 0

\* One entry for every original and, in an augmented pass, for every weak and
\* strong variant, and nothing else.
FullyPopulated(r) ==
    /\ Len(r.entries) = (IF real_aug THEN 3 ELSE 1) * NumSamples
    /\ OnePerSample(r.entries, OrgEntry)
    /\ real_aug => OnePerSample(r.entries, WeakEntry) /\ OnePerSample(r.entries, StrongEntry)

\* C3 as stated: after a completed pass the primary and, when provided, the
\* secondary repository each hold exactly one entry for every original sample
\* and, when augmentation is enabled, for every weak and strong variant.
C3_Original ==
    pc = "done" =>
        /\ FullyPopulated(ts_repository)
        /\ has_aug => FullyPopulated(ts_repository_aug)

\* C3 (amended): after a completed pass the primary repository holds exactly one
\* entry per original sample and, when augmentation is enabled, per weak and per
\* strong variant; the secondary repository, when provided, holds exactly one
\* entry per original sample and, when augmentation is enabled, per strong
\* variant only (no weak variant); both in loader-iteration order.
C3_Populated ==
    pc = "done" =>
        /\ FullyPopulated(ts_repository)
        /\ has_aug =>
              /\ Len(ts_repository_aug.entries) = (IF real_aug THEN 2 ELSE 1) * NumSamples
              /\ OnePerSample(ts_repository_aug.entries, OrgEntry)
              /\ real_aug =>
                    /\ OnePerSample(ts_repository_aug.entries, StrongEntry)
                    /\ NonePerSample(ts_repository_aug.entries, WeakEntry)

C3_Witness ==
    /\ pc = "done" /\ real_aug /\ has_aug
    /\ NumSamples = 2 /\ Len(loader) = 2
    /\ Len(ts_repository.entries) = 6 /\ Len(ts_repository_aug.entries) = 4

\* C4 as stated: a pass over a loader with zero batches ends without an error,
\* leaves the repository empty and, when real_aug=True, persists an empty
\* auxiliary dataset.
C4_EmptyLoader ==
    (passes > 0 /\ Len(loader) = 0 /\ pc \in {"done", "error"}) =>
        /\ pc = "done"
        /\ ts_repository.entries = <<>>
        /\ real_aug =>
              /\ contrastive_dataset.exists
              /\ contrastive_dataset.pass = passes
              /\ Len(contrastive_dataset.data) = 0

\* C5 as stated: after every completed pass an auxiliary dataset exists whose
\* length is 1 times the original sample count with the flag off, 3 times with it on.
C5_Original ==
    pc = "done" =>
        /\ contrastive_dataset.exists
        /\ Len(contrastive_dataset.data) = (IF real_aug THEN 3 ELSE 1) * NumSamples

\* C5 (amended): after every completed pass with the augmentation flag on, the
\* auxiliary dataset this pass persisted has 3 times the original sample count
\* of data and of labels; a completed pass with the flag off builds and
\* persists no auxiliary dataset.
C5_AuxLength ==
    pc = "done" =>
        IF real_aug
        THEN /\ contrastive_dataset.exists
             /\ contrastive_dataset.pass = passes
             /\ Len(contrastive_dataset.data) = 3 * NumSamples
             /\ Len(contrastive_dataset.target) = 3 * NumSamples
        ELSE NothingPersisted

C5_Witness ==
    /\ pc = "done" /\ real_aug
    /\ Len(loader) = 2 /\ NumSamples = 3
    /\ contrastive_dataset.pass = passes
    /\ Len(contrastive_dataset.data) = 9

\* The inputs and tags a pass appends for batches l: per batch the originals,
\* then the weak variants, then the strong variants.
AppendedData(l) ==
    Flatten([j \in 1..Len(l) |->
                [k \in 1..Len(l[j]) |-> l[j][k].ts_org]
                \o [k \in 1..Len(l[j]) |-> l[j][k].ts_w_augment]
                \o [k \in 1..Len(l[j]) |-> l[j][k].ts_ss_augment]])

AppendedTags(l) ==
    Flatten([j \in 1..Len(l) |->
                [k \in 1..Len(l[j]) |-> l[j][k].target]
                \o [k \in 1..Len(l[j]) |-> 2]
                \o [k \in 1..Len(l[j]) |-> 4]])

\* C6: in an augmented pass the buffers hold, when the loop ends, the appended
\* inputs and tags in append order, and the auxiliary dataset of a completed
\* pass is their concatenation: index i carries the i-th appended sample with
\* the tag appended with it; data and labels have equal length.
C6_AuxOrder ==
    /\ (pc = "finish" /\ real_aug) =>
          /\ Len(con_data) = Len(con_target)
          /\ \A k \in 1..Len(con_data) : Len(con_data[k]) = Len(con_target[k])
    /\ (pc = "done" /\ real_aug) =>
          /\ Len(contrastive_dataset.data) = Len(contrastive_dataset.target)
          /\ \A k \in 1..Len(contrastive_dataset.data) :
                /\ contrastive_dataset.data[k] = AppendedData(loader)[k]
                /\ contrastive_dataset.target[k] = AppendedTags(loader)[k]
          /\ Len(contrastive_dataset.data) = Len(AppendedData(loader))

C6_Witness ==
    /\ pc = "done" /\ real_aug
    /\ Len(loader) = 3
    /\ contrastive_dataset.target = <<1, 2, 4, 0, 2, 4, 1, 2, 4>>

\* C7: a completed pass that repeats the preceding completed pass (same loader,
\* same flags, same repository objects) leaves the primary and the secondary
\* repository with the content the preceding pass left.
C7_Idempotent ==
    (/\ pc = "done" /\ prev.valid
     /\ prev.batch_size = batch_size
     /\ prev.real_aug = real_aug
     /\ prev.has_aug = has_aug) =>
        /\ ts_repository.entries = prev.primary
        /\ ts_repository_aug.entries = prev.secondary

C7_Witness ==
    /\ pc = "done" /\ prev.valid
    /\ prev.batch_size = batch_size /\ prev.real_aug = real_aug /\ prev.has_aug = has_aug
    /\ real_aug /\ has_aug /\ Len(loader) = 2
    /\ Len(prev.primary) = 6 /\ Len(prev.secondary) = 4

\* The batches fully processed before the current one, and the current one.
DoneBatches == SubSeq(loader, 1, i)
CurrentBatch == IF i < Len(loader) THEN loader[i + 1] ELSE <<>>

\* The state a failed pass leaves: the entries of the batches before i plus the
\* variants of batch i whose update completed, and no artifact of this pass.
C8_ErrorState ==
    pc = "error" =>
        LET kept == CASE err.at = "org" ->
                            IF err.kind = "capacity_secondary"
                            THEN OrgEntries(CurrentBatch) ELSE <<>>
                      [] err.at = "weak" -> OrgEntries(CurrentBatch)
                      [] err.at = "strong" ->
                            OrgEntries(CurrentBatch) \o WeakEntries(CurrentBatch)
                            \o (IF err.kind = "capacity_secondary"
                                THEN StrongEntries(CurrentBatch) ELSE <<>>)
                      [] OTHER -> <<>>
            keptAug == IF err.at \in {"weak", "strong"}
                       THEN OrgEntries(CurrentBatch) ELSE <<>>
        IN  /\ err.kind \in {"field", "encoder", "capacity_primary",
                             "capacity_secondary", "cat"}
            /\ ts_repository.entries = PrimaryFill(DoneBatches, real_aug) \o kept
            /\ has_aug =>
                  ts_repository_aug.entries = SecondaryFill(DoneBatches, real_aug) \o keptAug
            /\ NothingPersisted

\* The only step out of a failed pass is a new call by the caller.
C8_NoRetry ==
    pc = "error" => (passes' = passes + 1 /\ err' = NoError)

\* C8: when the encoder, a repository update or a batch field lookup fails on
\* batch i, the pass ends with that error; the repositories hold exactly the
\* entries of the batches before i plus the variants of batch i whose update
\* completed before the failure, nothing is rolled back, no later batch is
\* processed, the pass persists no auxiliary dataset, and nothing is retried.
C8_FailurePropagates ==
    []C8_ErrorState /\ [][C8_NoRetry]_vars

C8_Witness ==
    /\ pc = "error" /\ err.kind = "capacity_secondary" /\ err.at = "strong"
    /\ i = 1 /\ Len(loader) = 3
    /\ Len(ts_repository.entries) = 6 /\ Len(ts_repository_aug.entries) = 3

\* The number of samples of the dataset the loader iterates over.
N == Len(dataset)

\* C9 as stated: in any pass, a repository (primary, or secondary when
\* provided) of base capacity N never holds more entries than its resize
\* multiplicity implies (3N for the primary of an augmented pass), and no
\* update signals a capacity error.
C9_Original ==
    passes > 0 =>
        /\ ts_repository.n = N =>
              /\ Len(ts_repository.entries) <= Capacity(ts_repository)
              /\ real_aug => Capacity(ts_repository) = 3 * N
              /\ err.kind # "capacity_primary"
        /\ (has_aug /\ ts_repository_aug.n = N) =>
              /\ Len(ts_repository_aug.entries) <= Capacity(ts_repository_aug)
              /\ Capacity(ts_repository_aug) = N
              /\ err.kind # "capacity_secondary"

\* C9 (amended): in any pass the primary repository of base capacity N never
\* holds more entries than its capacity (3N in an augmented pass) and its
\* updates signal no capacity error; a provided secondary repository of base
\* capacity N has the same guarantee in a pass without augmentation only. In an
\* augmented pass the secondary, never resized, receives 2N entries: with base
\* capacity at least 2N it signals no capacity error, and a pass that completes
\* had a secondary of capacity at least 2N.
C9_Capacity ==
    passes > 0 =>
        /\ ts_repository.n = N =>
              /\ Len(ts_repository.entries) <= Capacity(ts_repository)
              /\ real_aug => Capacity(ts_repository) = 3 * N
              /\ err.kind # "capacity_primary"
        /\ (has_aug /\ ~real_aug /\ ts_repository_aug.n = N) =>
              /\ Len(ts_repository_aug.entries) <= N
              /\ Capacity(ts_repository_aug) = N
              /\ err.kind # "capacity_secondary"
        /\ (has_aug /\ real_aug /\ ts_repository_aug.n >= 2 * N) =>
              /\ Len(ts_repository_aug.entries) <= 2 * N
              /\ err.kind # "capacity_secondary"
        /\ (has_aug /\ real_aug /\ pc = "done") =>
              /\ Len(ts_repository_aug.entries) = 2 * N
              /\ Capacity(ts_repository_aug) >= 2 * N

C9_Witness ==
    /\ pc = "done" /\ real_aug /\ has_aug
    /\ N = 3 /\ ts_repository.n = 3
    /\ Len(ts_repository.entries) = 9 /\ Capacity(ts_repository) = 9
    /\ ts_repository_aug.n = 6 /\ Len(ts_repository_aug.entries) = 6

\* What the secondary repository holds at each point of a running pass.
SecondarySoFar ==
    SecondaryFill(DoneBatches, real_aug)
    \o (IF pc \in {"progress", "weak", "strong", "reclaim"}
        THEN OrgEntries(CurrentBatch) ELSE <<>>)
    \o (IF pc = "reclaim" /\ real_aug THEN StrongEntries(CurrentBatch) ELSE <<>>)

\* The secondary repository at every point of a pass.
C10_Secondary ==
    /\ ts_repository_aug.mult = 1
    /\ (has_aug /\ pc \in {"org", "progress", "weak", "strong", "reclaim", "finish",
                          "done"}) =>
          /\ ts_repository_aug.entries = SecondarySoFar
          /\ \A k \in 1..Len(ts_repository_aug.entries) :
                /\ ts_repository_aug.entries[k][2] # 2
                /\ Count(ts_repository.entries, ts_repository_aug.entries[k]) = 1
    /\ (~has_aug /\ pc = "done") =>
          ts_repository.entries = PrimaryFill(loader, real_aug)

\* A pass without a secondary repository never touches that object.
C10_NoFanOut ==
    ~has_aug' => ts_repository_aug' = ts_repository_aug

\* C10: a provided secondary repository is reset at pass start and then holds,
\* batch by batch, the primary's (embedding, true target) entries of the
\* originals and, in an augmented pass, the primary's (embedding, 4) entries of
\* the strong variants; it never holds a weak-tagged entry and is never resized.
\* Without a secondary repository no step touches it and the primary result is
\* the same.
C10_SecondaryFanOut ==
    []C10_Secondary /\ [][C10_NoFanOut]_vars

C10_Witness ==
    /\ pc = "done" /\ real_aug /\ has_aug
    /\ Len(loader) = 3 /\ batch_size = 1
    /\ Len(ts_repository_aug.entries) = 6
    /\ prev.valid /\ ~prev.has_aug

\* ======================================================================
\* Memory residency and reclamation
\* ======================================================================
\* The device-resident tensors the pass holds.
DeviceResident == {l \in locals : l.arena = "cuda"}

\* The tensor variables of fill_ts_repository that are bound on the device.
DeviceLocals == {"ts_org", "targets", "output", "ts_w_augment", "ts_ss_augment"}

\* C11: at every point of a pass each tensor has one owning arena; every tensor
\* in the accumulation buffers and every embedding or label handed to a
\* repository update is host-resident; the device-resident tensors are those
\* of the current or the last batch only, at most one per local variable, so
\* their number does not grow with the batches processed.
C11_Residency ==
    /\ \A l \in locals : l.arena \in Devices /\ l.name \in DeviceLocals
    /\ \A l1, l2 \in locals : l1.name = l2.name => l1 = l2
    /\ Len(con_arena) = Len(con_data)
    /\ \A k \in 1..Len(con_arena) : con_arena[k] = <<"cpu", "cpu">>
    /\ update_arena \subseteq {"cpu"}
    /\ \A l \in DeviceResident : l.batch \in {i - 1, i}
    /\ Cardinality(DeviceResident) <= Cardinality(DeviceLocals)

C11_Witness ==
    /\ device = "cuda" /\ real_aug /\ pc = "org" /\ i = 2
    /\ Cardinality(DeviceResident) = 5
    /\ Len(con_arena) = 6
    /\ update_arena = {"cpu"}

\* ---------------------------------------------------------------------
\* One call of fill_ts_repository over a loader long enough to reach the
\* reclamation cadences: MaxCadenceBatches batches of one sample each, a primary
\* repository sized for the dataset and a secondary sized for two entries per
\* sample.
InitCadence ==
    /\ dataset = [k \in 1..MaxCadenceBatches |-> Sample(k)]
    /\ ts_repository = [n |-> MaxCadenceBatches, mult |-> 1, entries |-> <<>>]
    /\ ts_repository_aug = [n |-> 2 * MaxCadenceBatches, mult |-> 1, entries |-> <<>>]
    /\ loader = <<>>
    /\ batch_size = 1
    /\ real_aug = FALSE
    /\ has_aug = FALSE
    /\ i = 0
    /\ pc = "idle"
    /\ err = NoError
    /\ con_data = <<>>
    /\ con_target = <<>>
    /\ contrastive_dataset = NoDataset
    /\ prev = NoPrev
    /\ passes = 0
    /\ device \in Devices
    /\ locals = {}
    /\ con_arena = <<>>
    /\ update_arena = {}
    /\ progress_lines = <<>>
    /\ empty_cache_calls = <<>>
    /\ LabelsIdle

NextCadence ==
    \/ \E aug \in BOOLEAN, present \in BOOLEAN : passes = 0 /\ StartPass(1, aug, present)
    \/ \E fieldsOk \in BOOLEAN, encoderOk \in BOOLEAN : ProcessOriginal(fieldsOk, encoderOk)
    \/ Progress
    \/ \E fieldsOk \in BOOLEAN, encoderOk \in BOOLEAN : ProcessWeak(fieldsOk, encoderOk)
    \/ \E fieldsOk \in BOOLEAN, encoderOk \in BOOLEAN : ProcessStrong(fieldsOk, encoderOk)
    \/ Reclaim
    \/ Finish

SpecCadence == InitCadence /\ [][NextCadence]_vars

\* The batches that are past the progress check / past the interval check.
PastProgress == IF pc \in {"weak", "strong", "reclaim"} THEN i + 1 ELSE i
PastInterval == i

CallsAt(where) ==
    {k \in 1..Len(empty_cache_calls) : empty_cache_calls[k].at = where}

CallIndices(where) ==
    {empty_cache_calls[k].i : k \in CallsAt(where)}

\* The reclamations of the loop so far: one with the progress line at every
\* batch index that is a multiple of 100, one more at every multiple of 50 in an
\* augmented pass; what a completed pass leaves does not depend on them.
C12_Cadence ==
    (passes > 0 /\ pc # "error") =>
        /\ progress_lines = [k \in 1..Len(progress_lines) |-> 100 * (k - 1)]
        /\ Len(progress_lines) = Cardinality({j \in 0..(PastProgress - 1) : j % 100 = 0})
        /\ CallIndices("progress") = {j \in 0..(PastProgress - 1) : j % 100 = 0}
        /\ Cardinality(CallsAt("progress")) = Len(progress_lines)
        /\ CallIndices("interval") =
              IF real_aug THEN {j \in 0..(PastInterval - 1) : j % 50 = 0} ELSE {}
        /\ Cardinality(CallsAt("interval")) = Cardinality(CallIndices("interval"))
        /\ pc = "done" =>
              /\ ts_repository.entries = PrimaryFill(loader, real_aug)
              /\ has_aug => ts_repository_aug.entries = SecondaryFill(loader, real_aug)
              /\ real_aug =>
                    /\ contrastive_dataset.data = AppendedData(loader)
                    /\ contrastive_dataset.target = AppendedTags(loader)

\* A reclamation step of the loop changes neither repository nor buffer.
C12_Frame ==
    (pc \in {"progress", "reclaim"}) =>
        UNCHANGED <<ts_repository, ts_repository_aug, con_data, con_target>>

\* C12: device memory is reclaimed at every batch whose zero-based index is a
\* multiple of 100, together with the progress line (the first batch included),
\* and, in an augmented pass, additionally at every batch whose index is a
\* multiple of 50; each reclamation step leaves the repositories and the
\* accumulation buffers unchanged, so the final repository content and the
\* auxiliary dataset are what the batches alone determine.
C12_Reclamation ==
    []C12_Cadence /\ [][C12_Frame]_vars

C12_Witness ==
    /\ pc = "done" /\ real_aug /\ has_aug
    /\ progress_lines = <<0, 100>>
    /\ CallIndices("interval") = {0, 50, 100}
    /\ Len(ts_repository.entries) = 303

\* ======================================================================
\* convert_to_msl_format.py: find_anomaly_sequences
\* ======================================================================
\* No fill pass is running.
FillIdle ==
    /\ dataset = <<>>
    /\ ts_repository = [n |-> 0, mult |-> 1, entries |-> <<>>]
    /\ ts_repository_aug = [n |-> 0, mult |-> 1, entries |-> <<>>]
    /\ loader = <<>>
    /\ batch_size = 1
    /\ real_aug = FALSE
    /\ has_aug = FALSE
    /\ i = 0
    /\ pc = "idle"
    /\ err = NoError
    /\ con_data = <<>>
    /\ con_target = <<>>
    /\ contrastive_dataset = NoDataset
    /\ prev = NoPrev
    /\ passes = 0
    /\ device = "cpu"
    /\ locals = {}
    /\ con_arena = <<>>
    /\ update_arena = {}
    /\ progress_lines = <<>>
    /\ empty_cache_calls = <<>>

\* start_idx = None
NoIndex == -1

CloseRunInclusive(start_idx, n) == <<start_idx, n>>

\* anomalies.append([start_idx, i - 1])
CloseRun(start_idx, n) == <<start_idx, n - 1>>

\* The loop over enumerate(labels) from index n on, with the loop's variables.
RECURSIVE ScanLabels(_, _, _, _, _)
ScanLabels(ls, n, in_anomaly, start_idx, found) ==
    IF n = Len(ls)
    THEN [in_anomaly |-> in_anomaly, start_idx |-> start_idx, anomalies |-> found]
    ELSE IF ls[n + 1] = 1 /\ ~in_anomaly
    THEN ScanLabels(ls, n + 1, TRUE, n, found)
    ELSE IF ls[n + 1] = 0 /\ in_anomaly
    THEN ScanLabels(ls, n + 1, FALSE, start_idx, Append(found, CloseRun(start_idx, n)))
    ELSE ScanLabels(ls, n + 1, in_anomaly, start_idx, found)

find_anomaly_sequences(ls) ==
    LET s == ScanLabels(ls, 0, FALSE, NoIndex, <<>>)
    IN  IF s.in_anomaly
        THEN Append(s.anomalies, <<s.start_idx, Len(ls) - 1>>)
        ELSE s.anomalies

LabelSeqs == UNION {[1..n -> {0, 1}] : n \in 0..MaxLabels}

InitAnomaly ==
    /\ FillIdle
    /\ labels \in LabelSeqs
    /\ anomalies = <<>>
    /\ fas_called = FALSE
    /\ sequences = <<>>
    /\ num_values = 0
    /\ prediction_horizon = 0
    /\ predictive_sequences = <<>>
    /\ cpl_called = FALSE

\* anomaly_sequences = find_anomaly_sequences(test_labels)
FindAnomalySequences ==
    /\ ~fas_called
    /\ anomalies' = find_anomaly_sequences(labels)
    /\ fas_called' = TRUE
    /\ UNCHANGED <<labels, sequences, num_values, prediction_horizon,
                   predictive_sequences, cpl_called>>
    /\ UNCHANGED fill_vars

NextAnomaly == FindAnomalySequences

SpecAnomaly == InitAnomaly /\ [][NextAnomaly]_vars

\* The label at zero-based index j.
LabelAt(j) == labels[j + 1]

\* C13: for every label sequence over {0, 1} the result is exactly the maximal
\* runs of label 1 as inclusive [start, end] pairs in ascending order: every
\* index labelled 1 lies in exactly one pair, every index inside a pair is
\* labelled 1, each pair has start <= end, consecutive pairs are separated by at
\* least one 0, and a run that reaches the end of the data ends at len - 1.
C13_MaximalRuns ==
    fas_called =>
        /\ \A j \in 0..(Len(labels) - 1) :
              LabelAt(j) = 1 =>
                 Cardinality({k \in 1..Len(anomalies) :
                                 anomalies[k][1] <= j /\ j <= anomalies[k][2]}) = 1
        /\ \A k \in 1..Len(anomalies) :
              /\ 0 <= anomalies[k][1]
              /\ anomalies[k][1] <= anomalies[k][2]
              /\ anomalies[k][2] <= Len(labels) - 1
              /\ \A j \in anomalies[k][1]..anomalies[k][2] : LabelAt(j) = 1
              /\ anomalies[k][1] > 0 => LabelAt(anomalies[k][1] - 1) = 0
              /\ anomalies[k][2] < Len(labels) - 1 => LabelAt(anomalies[k][2] + 1) = 0
        /\ \A k \in 1..(Len(anomalies) - 1) : anomalies[k][2] + 1 < anomalies[k + 1][1]
        /\ (Len(labels) > 0 /\ LabelAt(Len(labels) - 1) = 1) =>
              anomalies[Len(anomalies)][2] = Len(labels) - 1

C13_Witness ==
    /\ fas_called
    /\ labels = <<0, 1, 1, 0, 1, 1>>
    /\ anomalies = <<<<1, 2>>, <<4, 5>>>>

\* ======================================================================
\* predictive_fault_detection.py: create_predictive_labels, one row
\* ======================================================================
Max(a, b) == IF a >= b THEN a ELSE b

\* new_start = max(0, start - prediction_horizon), likewise new_end
Shift(seq, h) == <<Max(0, seq[1] - h), Max(0, seq[2] - h)>>

\* if new_end > 0 and new_start < num_values
Keep(new_start, new_end, nv) == new_end > 0 /\ new_start < nv

\* The loop over the row's sequences.
RECURSIVE ShiftRow(_, _, _)
ShiftRow(seqs, h, nv) ==
    IF seqs = <<>>
    THEN <<>>
    ELSE LET shifted == Shift(Head(seqs), h)
         IN  IF Keep(shifted[1], shifted[2], nv)
             THEN <<shifted>> \o ShiftRow(Tail(seqs), h, nv)
             ELSE ShiftRow(Tail(seqs), h, nv)

\* The [start, end] pairs of a row with nv values.
Pairs(nv) == {p \in (0..(nv - 1)) \X (0..(nv - 1)) : p[1] <= p[2]}

Rows(nv) == UNION {[1..n -> Pairs(nv)] : n \in 0..MaxSequences}

InitShift ==
    /\ FillIdle
    /\ labels = <<>>
    /\ anomalies = <<>>
    /\ fas_called = FALSE
    /\ num_values \in 1..MaxValues
    /\ sequences \in Rows(num_values)
    /\ prediction_horizon \in 0..MaxHorizon
    /\ predictive_sequences = <<>>
    /\ cpl_called = FALSE

\* One iteration of "for idx, row in df.iterrows()".
CreatePredictiveLabels ==
    /\ ~cpl_called
    /\ predictive_sequences' = ShiftRow(sequences, prediction_horizon, num_values)
    /\ cpl_called' = TRUE
    /\ UNCHANGED <<labels, anomalies, fas_called, sequences, num_values,
                   prediction_horizon>>
    /\ UNCHANGED fill_vars

NextShift == CreatePredictiveLabels

SpecShift == InitShift /\ [][NextShift]_vars

\* The positions of the row's sequences whose shifted version still covers a
\* timestep of [0, num_values - 1].
ValidPositions == {k \in 1..Len(sequences) : sequences[k][2] - prediction_horizon >= 0}

\* The k-th smallest member of a set of positions.
Nth(S, k) == CHOOSE p \in S : Cardinality({q \in S : q <= p}) = k

\* C14: a row's sequence is kept if and only if end - h >= 0; each kept sequence
\* equals [max(0, start - h), max(0, end - h)] with
\* 0 <= new_start <= new_end < num_values, and the kept sequences stay in their
\* original relative order.
C14_ShiftedKept ==
    cpl_called =>
        /\ Len(predictive_sequences) = Cardinality(ValidPositions)
        /\ \A k \in 1..Len(predictive_sequences) :
              /\ k <= Cardinality(ValidPositions)
              /\ predictive_sequences[k] =
                    Shift(sequences[Nth(ValidPositions, k)], prediction_horizon)
              /\ 0 <= predictive_sequences[k][1]
              /\ predictive_sequences[k][1] <= predictive_sequences[k][2]
              /\ predictive_sequences[k][2] < num_values

====
